---- MODULE Spec2Model ----
(***************************************************************************)
(* A model of lightweight_gan: the training driver (cli.run_training),     *)
(* the command dispatch (cli.train_from_folder), the latent cache          *)
(* (utils.det_randn), the augmentation pipeline (diff_augment.DiffAugment) *)
(* and the image dataset (dataset.ImageDataset).                           *)
(*                                                                         *)
(* Each part has its own specification (SpecTrain, SpecCli, SpecCache,     *)
(* SpecAug, SpecData); the variables of the other parts stay at rest.      *)
(***************************************************************************)
EXTENDS Integers, Sequences, FiniteSets

VARIABLES
    \* ---- cli.run_training ----
    rank,            \* argument rank
    world_size,      \* argument world_size
    new,             \* argument new
    num_train_steps, \* argument num_train_steps
    pc,              \* position in run_training
    groupUp,         \* dist process group initialised
    steps,           \* model.steps
    tries,           \* tries left in the running retry_call
    iterCalls,       \* model.train calls made in the current loop iteration
    trainOk,         \* model.train calls that returned
    initSteps,       \* model.steps when the loop was entered (-1 before)
    loads,           \* model.load calls
    clears,          \* model.clear calls
    dataSrcSet,      \* model.set_data_src was called
    saves,           \* model.save calls made by run_training
    logs,            \* model.print_log calls made by run_training
    raised,          \* exception that left run_training ("none" if none)
    \* ---- cli.train_from_folder ----
    generate,               \* argument generate
    generate_interpolation, \* argument generate_interpolation
    show_progress,          \* argument show_progress
    aug_test,               \* argument aug_test
    multi_gpus,             \* argument multi_gpus
    device_count,           \* torch.cuda.device_count()
    cliPc,                  \* position in train_from_folder
    checkpoint,             \* model.checkpoint_num after model.load (-1: not loaded)
    generateCalls,          \* model.generate calls, each the checkpoint passed
    interpCalls,            \* model.generate_interpolation calls
    showCalls,              \* model.show_progress calls
    augTestCalls,           \* DiffAugmentTest calls
    launched,               \* run_training invocations, as <<rank, world_size>>
    cliRaised,              \* exception that left train_from_folder
    \* ---- utils.det_randn ----
    cache,        \* the lru_cache of det_randn: <<args, result>>, oldest first
    calls,        \* det_randn calls made
    draws,        \* torch.randn calls made; a batch is named by its draw
    lastCall,     \* <<args, result>> of the latest call (<<>> before the first)
    firstResult,  \* per shape, the result of its first call (-1: never called)
    \* ---- diff_augment.DiffAugment ----
    augTypes,     \* argument types
    augInput,     \* argument x
    augX,         \* local x
    augI,         \* position of p in types
    augJ,         \* position of f in AUGMENT_FNS[p]
    augPc,        \* position in DiffAugment
    augResult,    \* the returned batch
    \* ---- dataset.ImageDataset, dataset.expand_greyscale ----
    folder,       \* the entries below the folder argument
    transparent,  \* argument transparent
    greyscale,    \* argument greyscale
    aug_prob,     \* argument aug_prob, in units of 1/RandomGrid
    dsPc,         \* "new", "built" or "raised" (the assert failed)
    paths,        \* self.paths
    pillow_mode,  \* the mode images are converted to
    expand_fn,    \* the last step of self.transform
    crop_fn,      \* the crop step of self.transform
    item,         \* the latest __getitem__ outcome
    egCall        \* the latest direct expand_greyscale call and its outcome

trainVars == <<rank, world_size, new, num_train_steps, pc, groupUp, steps,
               tries, iterCalls, trainOk, initSteps, loads, clears,
               dataSrcSet, saves, logs, raised>>

cliVars == <<generate, generate_interpolation, show_progress, aug_test,
             multi_gpus, device_count, cliPc, checkpoint, generateCalls,
             interpCalls, showCalls, augTestCalls, launched, cliRaised>>

cacheVars == <<cache, calls, draws, lastCall, firstResult>>

augVars == <<augTypes, augInput, augX, augI, augJ, augPc, augResult>>

dataVars == <<folder, transparent, greyscale, aug_prob, dsPc, paths,
              pillow_mode, expand_fn, crop_fn, item, egCall>>

vars == <<trainVars, cliVars, cacheVars, augVars, dataVars>>

\* run_training not running
TrainIdle ==
    /\ rank = 0 /\ world_size = 1 /\ new = FALSE /\ num_train_steps = 0
    /\ pc = "idle" /\ groupUp = FALSE /\ steps = 0 /\ tries = 0
    /\ iterCalls = 0 /\ trainOk = 0 /\ initSteps = -1 /\ loads = 0
    /\ clears = 0 /\ dataSrcSet = FALSE /\ saves = 0 /\ logs = 0
    /\ raised = "none"

\* train_from_folder not running
CliIdle ==
    /\ generate = FALSE /\ generate_interpolation = FALSE
    /\ show_progress = FALSE /\ aug_test = FALSE /\ multi_gpus = FALSE
    /\ device_count = 0 /\ cliPc = "idle" /\ checkpoint = -1
    /\ generateCalls = <<>> /\ interpCalls = 0 /\ showCalls = 0
    /\ augTestCalls = 0 /\ launched = {} /\ cliRaised = "none"

\* shapes det_randn is called with, named 1..NumShapes in order of first use
NumShapes == 11

\* det_randn never called
CacheIdle ==
    /\ cache = <<>> /\ calls = 0 /\ draws = 0 /\ lastCall = <<>>
    /\ firstResult = [k \in 1..NumShapes |-> -1]

\* a batch: the source tensor, the transforms applied to it so far (first
\* applied first) and whether its memory is contiguous
Batch(src, applied, contiguous) ==
    [src |-> src, applied |-> applied, contiguous |-> contiguous]

\* DiffAugment not called
AugIdle ==
    /\ augTypes = <<>> /\ augInput = Batch(0, <<>>, TRUE)
    /\ augX = Batch(0, <<>>, TRUE) /\ augI = 0 /\ augJ = 0
    /\ augPc = "idle" /\ augResult = Batch(0, <<>>, TRUE)

\* the outcome of a call: the exception raised ("none" when it returned) and
\* the returned tensor, a tensor being the sequence of its channels
Outcome(exc, tensor) == [raised |-> exc, tensor |-> tensor]

\* the outcome of __getitem__: as above, with the mode of the opened image and
\* the crop transform that produced the item
ItemOutcome(exc, tensor, mode, crop) ==
    [raised |-> exc, tensor |-> tensor, srcMode |-> mode, crop |-> crop]

\* the last step of the transform: expand_greyscale with its transparent
\* argument bound, or identity
ExpandFn(fn, tr) == [fn |-> fn, transparent |-> tr]

\* no dataset constructed, expand_greyscale not called
DataIdle ==
    /\ folder = {} /\ transparent = FALSE /\ greyscale = FALSE
    /\ aug_prob = 0 /\ dsPc = "idle" /\ paths = <<>>
    /\ pillow_mode = "none" /\ expand_fn = ExpandFn("none", FALSE)
    /\ crop_fn = "none"
    /\ item = ItemOutcome("unset", <<>>, "none", "none")
    /\ egCall = [channels |-> 0, transparent |-> FALSE,
                 out |-> Outcome("unset", <<>>)]

\* what a step of run_training leaves alone
TrainOnly == UNCHANGED <<cliVars, cacheVars, augVars, dataVars>>
\* what a step of train_from_folder leaves alone
CliOnly == UNCHANGED <<trainVars, cacheVars, augVars, dataVars>>
\* what a call of det_randn leaves alone
CacheOnly == UNCHANGED <<trainVars, cliVars, augVars, dataVars>>
\* what a step of DiffAugment leaves alone
AugOnly == UNCHANGED <<trainVars, cliVars, cacheVars, dataVars>>
\* what a step of the dataset leaves alone
DataOnly == UNCHANGED <<trainVars, cliVars, cacheVars, augVars>>

----------------------------------------------------------------------------
(* Bounds *)

\* largest world_size
MaxWorld == 2
\* restored step counters are 0..MaxExtra and LogEvery-1 .. LogEvery-1+MaxExtra
MaxExtra == 1

----------------------------------------------------------------------------
(* cli.run_training *)

\* one try too many
RetryTriesOff == 3 + 1
\* retry_call(model.train, tries=3, ...)
RetryTries == 3
\* model.steps % 50
LogEvery == 50

\* is_main = rank == 0
is_main(r) == r = 0
\* is_ddp = world_size > 1
is_ddp(w) == w > 1

\* the branches swapped
ShouldLoadSwapped(n) == n
\* if not new: model.load(load_from) else: model.clear()
ShouldLoad(n) == ~n

\* off by one: one step too many
LoopCondInclusive(s, n) == s <= n
\* while model.steps < num_train_steps
LoopCond(s, n) == s < n

\* if is_main and model.steps % 50 == 0: model.print_log()
ShouldLog(r, s) == is_main(r) /\ s % LogEvery = 0

\* model.save(model.checkpoint_num) after the loop: not guarded by is_main
ShouldSave(r, w) == TRUE

\* Trainer: step counters a checkpoint can restore
RestoredSteps == (0..MaxExtra) \cup ((LogEvery - 1)..(LogEvery - 1 + MaxExtra))
\* values of num_train_steps
TargetSteps == (0..(MaxExtra + 1)) \cup ((LogEvery - 1)..(LogEvery + MaxExtra))

\* Trainer.__init__: a fresh trainer has made no step
TrainerInitSteps == 0
\* Trainer.clear: a cleared trainer starts from step 0
TrainerClearSteps == 0
\* Trainer.train, success: the step counter advances by one
TrainerTrainOk(s) == s + 1
\* Trainer.train, NanException: the step counter is unchanged
TrainerTrainNan(s) == s

InitTrain ==
    /\ world_size \in 1..MaxWorld
    /\ rank \in 0..(world_size - 1)
    /\ new \in BOOLEAN
    /\ num_train_steps \in TargetSteps
    /\ pc = "start"
    /\ groupUp = FALSE
    /\ steps = TrainerInitSteps
    /\ tries = RetryTries
    /\ iterCalls = 0
    /\ trainOk = 0
    /\ initSteps = -1
    /\ loads = 0
    /\ clears = 0
    /\ dataSrcSet = FALSE
    /\ saves = 0
    /\ logs = 0
    /\ raised = "none"
    /\ CliIdle
    /\ CacheIdle
    /\ AugIdle
    /\ DataIdle

\* lines 53-59: set_seed, dist.init_process_group
SetupDistributed ==
    /\ pc = "start"
    /\ TrainOnly
    /\ is_ddp(world_size)
    /\ ~groupUp
    /\ groupUp' = TRUE
    /\ UNCHANGED <<rank, world_size, new, num_train_steps, pc, steps, tries,
                   iterCalls, trainOk, initSteps, loads, clears, dataSrcSet,
                   saves, logs, raised>>

\* lines 61-69: model = Trainer(...)
CreateTrainer ==
    /\ pc = "start"
    /\ TrainOnly
    /\ is_ddp(world_size) => groupUp
    /\ steps' = TrainerInitSteps
    /\ pc' = "restore"
    /\ UNCHANGED <<rank, world_size, new, num_train_steps, groupUp, tries,
                   iterCalls, trainOk, initSteps, loads, clears, dataSrcSet,
                   saves, logs, raised>>

\* line 72: model.load(load_from) returns with a restored step counter
LoadModelOk ==
    /\ pc = "restore"
    /\ TrainOnly
    /\ ShouldLoad(new)
    /\ loads' = loads + 1
    /\ \E s \in RestoredSteps : steps' = s
    /\ pc' = "set_data"
    /\ UNCHANGED <<rank, world_size, new, num_train_steps, groupUp, tries,
                   iterCalls, trainOk, initSteps, clears, dataSrcSet, saves,
                   logs, raised>>

\* line 72: model.load(load_from) raises; nothing catches it
LoadModelFail ==
    /\ pc = "restore"
    /\ TrainOnly
    /\ ShouldLoad(new)
    /\ loads' = loads + 1
    /\ raised' = "LoadError"
    /\ pc' = "raised"
    /\ UNCHANGED <<rank, world_size, new, num_train_steps, groupUp, steps,
                   tries, iterCalls, trainOk, initSteps, clears, dataSrcSet,
                   saves, logs>>

\* line 74: model.clear()
ClearModel ==
    /\ pc = "restore"
    /\ TrainOnly
    /\ ~ShouldLoad(new)
    /\ clears' = clears + 1
    /\ steps' = TrainerClearSteps
    /\ pc' = "set_data"
    /\ UNCHANGED <<rank, world_size, new, num_train_steps, groupUp, tries,
                   iterCalls, trainOk, initSteps, loads, dataSrcSet, saves,
                   logs, raised>>

\* lines 76-83: model.set_data_src(data); progress_bar = tqdm(initial=model.steps)
SetDataSrc ==
    /\ pc = "set_data"
    /\ TrainOnly
    /\ dataSrcSet' = TRUE
    /\ initSteps' = steps
    /\ tries' = RetryTries
    /\ iterCalls' = 0
    /\ pc' = "loop"
    /\ UNCHANGED <<rank, world_size, new, num_train_steps, groupUp, steps,
                   trainOk, loads, clears, saves, logs, raised>>

\* lines 84-89: a model.train call of retry_call returns; the iteration ends
\* with the progress bar refresh and, on the main rank, the log
TrainOk ==
    /\ pc = "loop"
    /\ TrainOnly
    /\ LoopCond(steps, num_train_steps)
    /\ tries > 0
    /\ steps' = TrainerTrainOk(steps)
    /\ trainOk' = trainOk + 1
    /\ logs' = IF ShouldLog(rank, steps') THEN logs + 1 ELSE logs
    /\ tries' = RetryTries
    /\ iterCalls' = 0
    /\ UNCHANGED <<rank, world_size, new, num_train_steps, pc, groupUp,
                   initSteps, loads, clears, dataSrcSet, saves, raised>>

\* line 85: a model.train call of retry_call raises NanException; retry_call
\* counts the try down, calls again while tries are left and re-raises at 0
TrainNan ==
    /\ pc = "loop"
    /\ TrainOnly
    /\ LoopCond(steps, num_train_steps)
    /\ tries > 0
    /\ steps' = TrainerTrainNan(steps)
    /\ iterCalls' = iterCalls + 1
    /\ tries' = tries - 1
    /\ IF tries' = 0
         THEN raised' = "NanException" /\ pc' = "raised"
         ELSE UNCHANGED <<raised, pc>>
    /\ UNCHANGED <<rank, world_size, new, num_train_steps, groupUp, trainOk,
                   initSteps, loads, clears, dataSrcSet, saves, logs>>

\* line 91: model.save(model.checkpoint_num)
SaveFinal ==
    /\ pc = "loop"
    /\ TrainOnly
    /\ ~LoopCond(steps, num_train_steps)
    /\ saves' = IF ShouldSave(rank, world_size) THEN saves + 1 ELSE saves
    /\ pc' = "teardown"
    /\ UNCHANGED <<rank, world_size, new, num_train_steps, groupUp, steps,
                   tries, iterCalls, trainOk, initSteps, loads, clears,
                   dataSrcSet, logs, raised>>

\* lines 93-94: dist.destroy_process_group(); return
Finish ==
    /\ pc = "teardown"
    /\ TrainOnly
    /\ groupUp' = IF is_ddp(world_size) THEN FALSE ELSE groupUp
    /\ pc' = "done"
    /\ UNCHANGED <<rank, world_size, new, num_train_steps, steps, tries,
                   iterCalls, trainOk, initSteps, loads, clears, dataSrcSet,
                   saves, logs, raised>>

NextTrain ==
    \/ SetupDistributed
    \/ CreateTrainer
    \/ LoadModelOk
    \/ LoadModelFail
    \/ ClearModel
    \/ SetDataSrc
    \/ TrainOk
    \/ TrainNan
    \/ SaveFinal
    \/ Finish

SpecTrain == InitTrain /\ [][NextTrain]_vars

\* run_training is sequential code: while a statement is left to execute, it
\* is executed
SpecTrainFair == SpecTrain /\ WF_vars(NextTrain)

----------------------------------------------------------------------------
(* Claims about run_training *)

C1_State ==
    /\ iterCalls <= 3
    /\ pc = "loop" => iterCalls < 3
    /\ raised = "NanException" => (iterCalls = 3 /\ saves = 0 /\ pc = "raised")

C1_Step ==
    \* a call that returns is at most the third of its iteration and ends it
    /\ trainOk' > trainOk => (iterCalls < 3 /\ iterCalls' = 0 /\ raised' = "none")
    \* a failed call is followed by a retry exactly while fewer than 3 were made
    /\ iterCalls' > iterCalls => (raised' = "none" <=> iterCalls' < 3)
    \* after the abort nothing is trained or saved
    /\ raised = "NanException" => UNCHANGED <<steps, trainOk, iterCalls, saves, pc>>

\* C1: every iteration of the training loop makes at most 3 model.train
\* calls; a NanException is retried while fewer than 3 attempts were made, a
\* successful call ends the iteration and the next one has a fresh budget;
\* the third consecutive NanException leaves run_training, after which no
\* model.train call and no model.save call is made.
C1_RetryBudget == [](C1_State) /\ [][C1_Step]_vars

\* a step succeeded, then a later step failed three times in a row
C1_Witness == raised = "NanException" /\ trainOk > 0 /\ iterCalls = 3

\* C2: in distributed mode a worker of rank other than 0 never calls
\* model.save nor model.print_log.
C2_NonMainNeverWrites ==
    (is_ddp(world_size) /\ ~is_main(rank)) => (saves = 0 /\ logs = 0)

\* C6: exactly one of model.load (new false) and model.clear (new true) is
\* called, before set_data_src and before the first model.train; a failing
\* model.load ends run_training with no model.train and no model.save call.
C6_RestoreFirst ==
    /\ loads + clears <= 1
    /\ loads = 1 => ~new
    /\ clears = 1 => new
    /\ dataSrcSet => loads + clears = 1
    /\ (iterCalls > 0 \/ trainOk > 0 \/ saves > 0) => dataSrcSet
    /\ raised = "LoadError" =>
         (/\ pc = "raised" /\ loads = 1 /\ ~dataSrcSet
          /\ iterCalls = 0 /\ trainOk = 0 /\ saves = 0)

\* model.load failed at start-up
C6_Witness == raised = "LoadError" /\ loads = 1 /\ ~new

C9_Max(a, b) == IF a >= b THEN a ELSE b

C9_State ==
    /\ saves <= 1
    /\ saves = 1 => (pc \in {"teardown", "done"} /\ ~LoopCond(steps, num_train_steps))
    /\ pc = "done" =>
         (/\ steps >= num_train_steps
          /\ saves = 1
          /\ raised = "none"
          /\ trainOk = C9_Max(0, num_train_steps - initSteps)
          /\ initSteps >= num_train_steps => trainOk = 0)

\* C9: run_training returns only with model.steps >= num_train_steps, having
\* called model.save exactly once and after the last model.train call, and
\* having made exactly max(0, num_train_steps - initial steps) successful
\* model.train calls (none when the restored counter already reaches the
\* target); every run ends, by returning unless an exception left it.
C9_ReturnsAtTarget ==
    /\ [](C9_State)
    /\ <>(pc = "done" \/ raised # "none")

\* a run that trained and returned
C9_Witness == pc = "done" /\ trainOk = 2 /\ saves = 1 /\ initSteps > 0

----------------------------------------------------------------------------
(* cli.train_from_folder *)

\* largest checkpoint number a load restores
MaxCheckpoint == 2

\* utils.py, import datetime: the names the module datetime defines
DatetimeModuleAttrs ==
    {"MAXYEAR", "MINYEAR", "date", "datetime", "time", "timedelta",
     "timezone", "tzinfo"}

\* utils.current_iso_datetime: datetime.now().isoformat(), looked up on the
\* module datetime
current_iso_datetime ==
    IF "now" \in DatetimeModuleAttrs THEN "isoformat" ELSE "AttributeError"

\* assert torch.cuda.is_available()
CudaAvailable(d) == d > 0

\* the branch train_from_folder takes: the ifs at lines 249, 260, 273, 278
Command(g, gi, sp, at) ==
    IF g THEN "generate"
    ELSE IF gi THEN "generate_interpolation"
    ELSE IF sp THEN "show_progress"
    ELSE IF at THEN "aug_test"
    ELSE "train"

\* if world_size == 1 or not multi_gpus
SingleProcess(d, mg) == d = 1 \/ ~mg

InitCli ==
    /\ generate \in BOOLEAN
    /\ generate_interpolation \in BOOLEAN
    /\ show_progress \in BOOLEAN
    /\ aug_test \in BOOLEAN
    /\ multi_gpus \in BOOLEAN
    /\ device_count \in 0..MaxWorld
    /\ cliPc = "entry"
    /\ checkpoint = -1
    /\ generateCalls = <<>>
    /\ interpCalls = 0
    /\ showCalls = 0
    /\ augTestCalls = 0
    /\ launched = {}
    /\ cliRaised = "none"
    /\ TrainIdle
    /\ CacheIdle
    /\ AugIdle
    /\ DataIdle

\* lines 212-247: the assert on CUDA, then model_args
CheckCuda ==
    /\ cliPc = "entry"
    /\ CliOnly
    /\ IF CudaAvailable(device_count)
         THEN cliPc' = "dispatch" /\ UNCHANGED cliRaised
         ELSE cliPc' = "raised" /\ cliRaised' = "AssertionError"
    /\ UNCHANGED <<generate, generate_interpolation, show_progress, aug_test,
                   multi_gpus, device_count, checkpoint, generateCalls,
                   interpCalls, showCalls, augTestCalls, launched>>

\* lines 249-258: the generate command
CmdGenerate ==
    /\ cliPc = "dispatch"
    /\ CliOnly
    /\ Command(generate, generate_interpolation, show_progress, aug_test) = "generate"
    /\ \/ \* model.load raises
          /\ cliRaised' = "LoadError"
          /\ cliPc' = "raised"
          /\ UNCHANGED <<checkpoint, generateCalls>>
       \/ \* model.load returns; samples_name = current_iso_datetime()
          \E c \in 0..MaxCheckpoint :
            /\ checkpoint' = c
            /\ IF current_iso_datetime = "AttributeError"
                 THEN /\ cliRaised' = "AttributeError"
                      /\ cliPc' = "raised"
                      /\ UNCHANGED generateCalls
                 ELSE /\ generateCalls' = Append(generateCalls, c)
                      /\ cliPc' = "returned"
                      /\ UNCHANGED cliRaised
    /\ UNCHANGED <<generate, generate_interpolation, show_progress, aug_test,
                   multi_gpus, device_count, interpCalls, showCalls,
                   augTestCalls, launched>>

\* lines 260-271: the generate_interpolation command
CmdInterpolation ==
    /\ cliPc = "dispatch"
    /\ CliOnly
    /\ Command(generate, generate_interpolation, show_progress, aug_test)
         = "generate_interpolation"
    /\ \/ /\ cliRaised' = "LoadError"
          /\ cliPc' = "raised"
          /\ UNCHANGED <<checkpoint, interpCalls>>
       \/ \E c \in 0..MaxCheckpoint :
            /\ checkpoint' = c
            /\ IF current_iso_datetime = "AttributeError"
                 THEN /\ cliRaised' = "AttributeError"
                      /\ cliPc' = "raised"
                      /\ UNCHANGED interpCalls
                 ELSE /\ interpCalls' = interpCalls + 1
                      /\ cliPc' = "returned"
                      /\ UNCHANGED cliRaised
    /\ UNCHANGED <<generate, generate_interpolation, show_progress, aug_test,
                   multi_gpus, device_count, generateCalls, showCalls,
                   augTestCalls, launched>>

\* lines 273-276: the show_progress command
CmdShowProgress ==
    /\ cliPc = "dispatch"
    /\ CliOnly
    /\ Command(generate, generate_interpolation, show_progress, aug_test)
         = "show_progress"
    /\ showCalls' = showCalls + 1
    /\ cliPc' = "returned"
    /\ UNCHANGED <<generate, generate_interpolation, show_progress, aug_test,
                   multi_gpus, device_count, checkpoint, generateCalls,
                   interpCalls, augTestCalls, launched, cliRaised>>

\* lines 278-286: the aug_test command
CmdAugTest ==
    /\ cliPc = "dispatch"
    /\ CliOnly
    /\ Command(generate, generate_interpolation, show_progress, aug_test)
         = "aug_test"
    /\ augTestCalls' = augTestCalls + 1
    /\ cliPc' = "returned"
    /\ UNCHANGED <<generate, generate_interpolation, show_progress, aug_test,
                   multi_gpus, device_count, checkpoint, generateCalls,
                   interpCalls, showCalls, launched, cliRaised>>

\* lines 288-323: run_training in this process, or one process per device
CmdTrain ==
    /\ cliPc = "dispatch"
    /\ CliOnly
    /\ Command(generate, generate_interpolation, show_progress, aug_test) = "train"
    /\ launched' = IF SingleProcess(device_count, multi_gpus)
                     THEN {<<0, 1>>}
                     ELSE {<<r, device_count>> : r \in 0..(device_count - 1)}
    /\ cliPc' = "returned"
    /\ UNCHANGED <<generate, generate_interpolation, show_progress, aug_test,
                   multi_gpus, device_count, checkpoint, generateCalls,
                   interpCalls, showCalls, augTestCalls, cliRaised>>

NextCli ==
    \/ CheckCuda
    \/ CmdGenerate
    \/ CmdInterpolation
    \/ CmdShowProgress
    \/ CmdAugTest
    \/ CmdTrain

SpecCli == InitCli /\ [][NextCli]_vars

\* C10: the commands are exclusive, in the priority generate,
\* generate_interpolation, show_progress, aug_test, train: with generate set
\* and the checkpoint loaded, train_from_folder calls model.generate exactly
\* once, with the loaded checkpoint number, and returns; with any command flag
\* set run_training is never invoked.
C10_GenerateRuns ==
    /\ (generate \/ generate_interpolation \/ show_progress \/ aug_test)
         => launched = {}
    /\ (generate /\ checkpoint >= 0 /\ cliPc \in {"returned", "raised"})
         => (cliPc = "returned" /\ generateCalls = <<checkpoint>>)

\* the part of C10 about run_training alone
C10_NoTrainingOnCommand ==
    (generate \/ generate_interpolation \/ show_progress \/ aug_test)
        => launched = {}

----------------------------------------------------------------------------
(* utils.det_randn *)

\* det_randn calls in one run
MaxCalls == 12
\* torch.randn(*args): every call draws a fresh batch, the n-th draw is batch n
TorchRandn(n) == n

\* @lru_cache(maxsize=10)
CacheMaxSize == 10

\* position of args in the cache, 0 when absent
CachePos(c, args) ==
    IF \E i \in 1..Len(c) : c[i][1] = args
      THEN CHOOSE i \in 1..Len(c) : c[i][1] = args
      ELSE 0

\* the sequence without its i-th element
RemoveAt(c, i) == SubSeq(c, 1, i - 1) \o SubSeq(c, i + 1, Len(c))

\* lru_cache, hit: the entry becomes the most recently used
CacheHit(c, i) == Append(RemoveAt(c, i), c[i])

\* lru_cache, miss: the new entry is stored; a full cache drops its least
\* recently used entry
CacheMiss(c, args, v) ==
    IF Len(c) >= CacheMaxSize
      THEN Append(Tail(c), <<args, v>>)
      ELSE Append(c, <<args, v>>)

\* shapes called so far
SeenShapes == {k \in 1..NumShapes : firstResult[k] # -1}

InitCache ==
    /\ CacheIdle
    /\ TrainIdle
    /\ CliIdle
    /\ AugIdle
    /\ DataIdle

\* det_randn(*args), args cached: the cached batch is returned
DetRandnHit ==
    /\ calls < MaxCalls
    /\ CacheOnly
    /\ \E args \in SeenShapes :
         LET i == CachePos(cache, args) IN
         /\ i # 0
         /\ lastCall' = <<args, cache[i][2]>>
         /\ cache' = CacheHit(cache, i)
    /\ calls' = calls + 1
    /\ UNCHANGED <<firstResult, draws>>

\* det_randn(*args), args not cached: torch.randn(*args) is drawn and stored
DetRandnMiss ==
    /\ calls < MaxCalls
    /\ CacheOnly
    /\ \E args \in 1..NumShapes :
         LET v == TorchRandn(draws + 1) IN
         /\ args \in SeenShapes \/ args = Cardinality(SeenShapes) + 1
         /\ CachePos(cache, args) = 0
         /\ lastCall' = <<args, v>>
         /\ cache' = CacheMiss(cache, args, v)
         /\ firstResult' = IF firstResult[args] = -1
                             THEN [firstResult EXCEPT ![args] = v]
                             ELSE firstResult
    /\ draws' = draws + 1
    /\ calls' = calls + 1

NextCache ==
    \/ DetRandnHit
    \/ DetRandnMiss

SpecCache == InitCache /\ [][NextCache]_vars

\* C3: any two det_randn calls with the same arguments return the same
\* batch: every call returns what the first call with its arguments returned,
\* whatever calls with other arguments happen in between.
C3_SameShapeSameBatch ==
    lastCall # <<>> => lastCall[2] = firstResult[lastCall[1]]

----------------------------------------------------------------------------
(* diff_augment.DiffAugment *)

\* longest types list
MaxTypes == 3
\* source tensors are 1..MaxBatch
MaxBatch == 2

\* augmentations.AUGMENT_FNS: the functions of each named transform
AUGMENT_FNS ==
    [color       |-> <<"rand_brightness", "rand_saturation", "rand_contrast">>,
     offset      |-> <<"rand_offset">>,
     translation |-> <<"rand_translation">>,
     cutout      |-> <<"rand_cutout">>]

AugmentNames == DOMAIN AUGMENT_FNS

\* sequences over S of length at most n
SeqUpTo(S, n) == UNION {[1..k -> S] : k \in 0..n}

\* only the first function of a transform is used
FnAtFirstOnly(types, i, j) == AUGMENT_FNS[types[i]][1]
\* for p in types: for f in AUGMENT_FNS[p]: the f of this iteration
FnAt(types, i, j) == AUGMENT_FNS[types[i]][j]

\* x = f(x)
ApplyFn(f, x) == [x EXCEPT !.applied = Append(@, f), !.contiguous = FALSE]

\* x.contiguous(): the same values in contiguous memory
Contiguous(x) == [x EXCEPT !.contiguous = TRUE]

InitAug ==
    /\ augTypes \in SeqUpTo(AugmentNames, MaxTypes)
    /\ augInput \in {Batch(b, <<>>, c) : b \in 1..MaxBatch, c \in BOOLEAN}
    /\ augX = augInput
    /\ augI = 1
    /\ augJ = 1
    /\ augPc = "loop"
    /\ augResult = Batch(0, <<>>, TRUE)
    /\ TrainIdle
    /\ CliIdle
    /\ CacheIdle
    /\ DataIdle

\* lines 5-7: one pass of the inner loop body, x = f(x)
AugApply ==
    /\ augPc = "loop"
    /\ AugOnly
    /\ augI <= Len(augTypes)
    /\ augX' = ApplyFn(FnAt(augTypes, augI, augJ), augX)
    /\ IF augJ < Len(AUGMENT_FNS[augTypes[augI]])
         THEN augJ' = augJ + 1 /\ augI' = augI
         ELSE augJ' = 1 /\ augI' = augI + 1
    /\ UNCHANGED <<augTypes, augInput, augPc, augResult>>

\* line 8: return x.contiguous()
AugReturn ==
    /\ augPc = "loop"
    /\ AugOnly
    /\ augI > Len(augTypes)
    /\ augResult' = Contiguous(augX)
    /\ augPc' = "done"
    /\ UNCHANGED <<augTypes, augInput, augX, augI, augJ>>

NextAug ==
    \/ AugApply
    \/ AugReturn

SpecAug == InitAug /\ [][NextAug]_vars

\* the functions of the named transforms, in the order of the names
RECURSIVE C4_Composition(_)
C4_Composition(types) ==
    IF types = <<>> THEN <<>>
    ELSE AUGMENT_FNS[Head(types)] \o C4_Composition(Tail(types))

\* C4: DiffAugment(x, types) is the left-to-right composition of the
\* transforms named in types, a repeated name applied again each time, every
\* function of AUGMENT_FNS[name] in list order; for the empty list nothing is
\* applied and the result has the values of x.
C4_LeftToRight ==
    augPc = "done" =>
        /\ augResult.src = augInput.src
        /\ augResult.applied = C4_Composition(augTypes)
        /\ augTypes = <<>> => augResult.applied = augInput.applied

\* a list with a repeated name and a transform of several functions
C4_Witness ==
    /\ augPc = "done"
    /\ augTypes = <<"color", "cutout", "color">>
    /\ Len(augResult.applied) = 7

----------------------------------------------------------------------------
(* dataset.ImageDataset, dataset.expand_greyscale *)

\* random() and aug_prob are multiples of 1/RandomGrid
RandomGrid == 4
\* expand_greyscale is called with tensors of 0..MaxChannels channels
MaxChannels == 5

\* EXTS = ["jpg", "jpeg", "png"]
EXTS == <<"jpg", "jpeg", "png">>

\* the paths a folder may hold: name, last extension, kind
FolderUniverse ==
    {[name |-> "a.jpg",          ext |-> "jpg",  kind |-> "file"],
     [name |-> "sub/b.jpeg",     ext |-> "jpeg", kind |-> "file"],
     [name |-> "c.png",          ext |-> "png",  kind |-> "file"],
     [name |-> "sub/deep/d.png", ext |-> "png",  kind |-> "file"],
     [name |-> "notes.txt",      ext |-> "txt",  kind |-> "file"],
     [name |-> "sub/f.png",      ext |-> "png",  kind |-> "dir"]}

\* PIL image modes and the number of bands of each
PilBands ==
    [L |-> 1, P |-> 1, LA |-> 2, RGB |-> 3, RGBA |-> 4, CMYK |-> 4]

PilModes == DOMAIN PilBands

\* Path(folder).glob("**/*.ext"): every path below folder, at any depth and of
\* any kind, whose name ends in .ext
Glob(f, ext) == {e \in f : e.ext = ext}

\* the elements of a set in some order
RECURSIVE SetToSeq(_)
SetToSeq(S) ==
    IF S = {} THEN <<>>
    ELSE LET e == CHOOSE x \in S : TRUE IN <<e>> \o SetToSeq(S \ {e})

\* [p for ext in EXTS for p in Path(folder).glob(f"**/*.{ext}")]
RECURSIVE GlobAll(_, _)
GlobAll(f, exts) ==
    IF exts = <<>> THEN <<>>
    ELSE SetToSeq(Glob(f, Head(exts))) \o GlobAll(f, Tail(exts))

\* the image is returned as it is
ConvertImageToKeep(img_type, mode) == mode
\* convert_image_to: the mode of the returned image
convert_image_to(img_type, mode) ==
    IF mode # img_type THEN img_type ELSE mode

\* transforms.ToTensor: one channel per band
ToTensor(mode) == [i \in 1..PilBands[mode] |-> i]

\* torch.ones(1, ...): one channel of ones, written 0
OnesChannel == <<0>>

\* exists(val), None being the empty sequence here
exists(val) == val # <<>>

\* t.expand(3, -1, -1) of a one-channel tensor: the channel three times
Expand3(t) == <<t[1], t[1], t[1]>>

\* expand_greyscale(tensor, transparent)
expand_greyscale(tensor, tr) ==
    LET channels == Len(tensor)
        num_target_channels == IF tr THEN 4 ELSE 3
    IN  IF channels = num_target_channels THEN Outcome("none", tensor)
        ELSE IF channels \notin {1, 2} THEN Outcome("Exception", <<>>)
        ELSE LET color == IF channels = 1
                            THEN Expand3(tensor)
                            ELSE Expand3(SubSeq(tensor, 1, 1))
                 alpha0 == IF channels = 1 THEN <<>> ELSE Tail(tensor)
                 alpha == IF ~exists(alpha0) /\ tr THEN OnesChannel ELSE alpha0
             IN  Outcome("none", IF ~tr THEN color ELSE color \o alpha)

\* the expand_fn of the transform applied to a tensor
ApplyExpandFn(fn, tensor) ==
    IF fn.fn = "identity" THEN Outcome("none", tensor)
    ELSE expand_greyscale(tensor, fn.transparent)

\* random_apply(prob, fn1, fn2), r being the value of random()
random_apply(prob, r, fn1, fn2) == IF r < prob THEN fn1 ELSE fn2

\* __len__
DatasetLen == Len(paths)

InitData ==
    /\ folder \in SUBSET FolderUniverse
    /\ transparent \in BOOLEAN
    /\ greyscale \in BOOLEAN
    /\ aug_prob \in {0, RandomGrid \div 2, RandomGrid}
    /\ dsPc = "new"
    /\ paths = <<>>
    /\ pillow_mode = "none"
    /\ expand_fn = ExpandFn("none", FALSE)
    /\ crop_fn = "none"
    /\ item = ItemOutcome("unset", <<>>, "none", "none")
    /\ egCall = [channels |-> 0, transparent |-> FALSE,
                 out |-> Outcome("unset", <<>>)]
    /\ TrainIdle
    /\ CliIdle
    /\ CacheIdle
    /\ AugIdle

\* ImageDataset.__init__
Construct ==
    /\ dsPc = "new"
    /\ DataOnly
    /\ paths' = GlobAll(folder, EXTS)
    /\ IF Len(paths') > 0
         THEN /\ dsPc' = "built"
              /\ pillow_mode' = IF transparent THEN "RGBA"
                                ELSE IF greyscale THEN "L" ELSE "RGB"
              /\ expand_fn' = IF transparent
                                THEN ExpandFn("expand_greyscale", transparent)
                              ELSE IF greyscale THEN ExpandFn("identity", FALSE)
                              ELSE ExpandFn("expand_greyscale", FALSE)
              /\ \E r \in 0..(RandomGrid - 1) :
                   crop_fn' = random_apply(aug_prob, r, "CenterCrop",
                                           "RandomResizedCrop")
         ELSE /\ dsPc' = "raised"
              /\ UNCHANGED <<pillow_mode, expand_fn, crop_fn>>
    /\ UNCHANGED <<folder, transparent, greyscale, aug_prob, item, egCall>>

\* ImageDataset.__getitem__: Image.open(path), then self.transform(img)
GetItem ==
    /\ dsPc = "built"
    /\ DataOnly
    /\ \E index \in 1..DatasetLen, mode \in PilModes :
         IF paths[index].kind = "dir"
           THEN item' = ItemOutcome("IsADirectoryError", <<>>, "none", "none")
           ELSE LET converted == convert_image_to(pillow_mode, mode)
                    out == ApplyExpandFn(expand_fn, ToTensor(converted))
                IN  item' = ItemOutcome(out.raised, out.tensor, mode, crop_fn)
    /\ UNCHANGED <<folder, transparent, greyscale, aug_prob, dsPc, paths,
                   pillow_mode, expand_fn, crop_fn, egCall>>

\* a call of expand_greyscale on a tensor of n channels
ExpandCall ==
    /\ DataOnly
    /\ \E n \in 0..MaxChannels, tr \in BOOLEAN :
         egCall' = [channels |-> n, transparent |-> tr,
                    out |-> expand_greyscale([i \in 1..n |-> i], tr)]
    /\ UNCHANGED <<folder, transparent, greyscale, aug_prob, dsPc, paths,
                   pillow_mode, expand_fn, crop_fn, item>>

NextData ==
    \/ Construct
    \/ GetItem
    \/ ExpandCall

SpecData == InitData /\ [][NextData]_vars

\* C5: every delivered item has the channel count of the colour mode (4 when
\* transparent, else 1 when greyscale, else 3), whatever the mode of the source
\* image; expand_greyscale returns a tensor of exactly 4 (transparent) or 3
\* channels, or raises, and raises only for a channel count that is neither 1,
\* 2 nor the target count.
C5_ChannelCount ==
    /\ item.raised = "none" =>
         Len(item.tensor) = (IF transparent THEN 4 ELSE IF greyscale THEN 1 ELSE 3)
    /\ egCall.out.raised = "none" =>
         Len(egCall.out.tensor) = (IF egCall.transparent THEN 4 ELSE 3)
    /\ egCall.out.raised = "Exception" =>
         egCall.channels \notin {1, 2, IF egCall.transparent THEN 4 ELSE 3}

\* a two-band image delivered with 4 channels by a dataset with both flags
\* set, and an expand_greyscale call that raised
C5_Witness ==
    /\ item.raised = "none" /\ item.srcMode = "LA"
    /\ transparent /\ greyscale /\ Len(item.tensor) = 4
    /\ egCall.out.raised = "Exception" /\ egCall.channels = 3

\* C7: with aug_prob = 0.0 no item is produced by RandomResizedCrop (every
\* item by CenterCrop), with aug_prob = 1.0 every item is produced by
\* RandomResizedCrop.
C7_AugProbability ==
    item.raised = "none" =>
        /\ aug_prob = 0 => item.crop = "CenterCrop"
        /\ aug_prob = RandomGrid => item.crop = "RandomResizedCrop"

\* the image files of the folder: regular files with an extension of EXTS
C8_ImageFiles ==
    {e \in folder : e.kind = "file" /\ e.ext \in {"jpg", "jpeg", "png"}}

\* C8: the construction succeeds exactly when the folder holds, at any depth,
\* a file with extension jpg, jpeg or png, len(dataset) is then the number of
\* such files, and it fails on the assertion otherwise.
C8_LenCountsImageFiles ==
    dsPc \in {"built", "raised"} =>
        IF C8_ImageFiles # {}
          THEN dsPc = "built" /\ DatasetLen = Cardinality(C8_ImageFiles)
          ELSE dsPc = "raised"

====
